---- MODULE Spec2Model ----
(***************************************************************************)
(* Model of sherpa/sp_handler.py: a serverless speech-recognition worker.  *)
(*                                                                         *)
(*   - create_word_segments and extract_result_from_output are pure        *)
(*     functions; they are operators here, exercised by SpecSeg and        *)
(*     SpecExtract, whose initial states draw the inputs.                  *)
(*   - ensure_model (module import) and handler (one job) are modelled     *)
(*     step by step per worker process; SpecHandler runs one worker,       *)
(*     SpecWorkers runs the worker processes concurrently on one model     *)
(*     directory and one output directory.                                 *)
(*                                                                         *)
(* A string is a sequence of one-character strings; a timestamp is a       *)
(* number of thousandths of a second.                                      *)
(***************************************************************************)
EXTENDS Integers, Sequences, FiniteSets, TLC

VARIABLES
    seg_pc,          \* SpecSeg: "call" before create_word_segments ran, "done" after
    seg_tokens,      \* its tokens argument
    seg_timestamps,  \* its timestamps argument
    seg_out,         \* its return value
    ext_pc,          \* SpecExtract: "call" before extract_result_from_output ran, "done" after
    ext_stdout,      \* its stdout argument, as lines
    ext_stderr,      \* its stderr argument, as lines
    ext_out,         \* what the call produced: the returned dict, or the exception raised
    model_dir,       \* the names of the files in MODEL_DIR (none: missing or empty)
    downloads,       \* how many snapshot_download calls have started
    artifacts,       \* OUT_DIR: one entry (name, writer, content) per file
    tmp_files,       \* the job ids whose /tmp/{job_id}_16k.wav exists
    next_id,         \* how many uuids have been drawn
    pc,              \* per worker process: where it is
    dl,              \* per worker process: the files its snapshot_download has fetched
    job              \* per worker process: the locals of its current (or last) handler call

segVars == <<seg_pc, seg_tokens, seg_timestamps, seg_out>>

extVars == <<ext_pc, ext_stdout, ext_stderr, ext_out>>

sysVars == <<model_dir, downloads, artifacts, tmp_files, next_id, pc, dl, job>>

vars == <<segVars, extVars, sysVars>>

-----------------------------------------------------------------------------
(* Bounds.                                                                 *)

\* Longest token / timestamp sequence handed to create_word_segments.
MaxLen == 3

\* Most lines of the two engine streams together, in SpecExtract.
MaxLines == 3

\* Most lines of the two engine streams together, in a job.
MaxJobLines == 2

\* Most jobs that get past the audio check, over all workers.
MaxJobs == 2

-----------------------------------------------------------------------------
(* Strings.                                                                *)

\* The worker-process variables, in the specifications that run no worker.
SysUnused ==
    /\ model_dir = {} /\ downloads = 0 /\ artifacts = {} /\ tmp_files = {}
    /\ next_id = 0 /\ pc = <<>> /\ dl = <<>> /\ job = <<>>

SP == " "

Min(a, b) == IF a <= b THEN a ELSE b

\* All sequences over S of length 0..n.
RECURSIVE SeqsUpTo(_, _)
SeqsUpTo(S, n) ==
    IF n = 0 THEN {<<>>}
    ELSE LET shorter == SeqsUpTo(S, n - 1)
         IN  shorter \cup {Append(s, x) : s \in {t \in shorter : Len(t) = n - 1}, x \in S}

\* str.lstrip() / str.rstrip() / str.strip(): whitespace removed from the ends.
RECURSIVE LStrip(_)
LStrip(s) == IF s # <<>> /\ Head(s) = SP THEN LStrip(Tail(s)) ELSE s

RECURSIVE RStrip(_)
RStrip(s) == IF s # <<>> /\ s[Len(s)] = SP THEN RStrip(SubSeq(s, 1, Len(s) - 1)) ELSE s

Strip(s) == RStrip(LStrip(s))

\* str.startswith(' ')
StartsWithSpace(s) == s # <<>> /\ Head(s) = SP

\* round(x, 2) of a time given in thousandths, as hundredths.  The times drawn
\* below never end in the digit 5, where the float's binary expansion decides.
Round2(t) == (t + 5) \div 10

-----------------------------------------------------------------------------
(* create_word_segments (lines 103-144).                                   *)

\* word_start = None
NoneTs == -1

\* One dict of the returned list.
Segment(word, start, end) == [word |-> Strip(word), start |-> Round2(start), end |-> Round2(end)]

\* The for loop over enumerate(zip(tokens, timestamps)), from 1-based index i,
\* and the closing of the last word after it.
RECURSIVE SegLoop(_, _, _, _, _, _)
SegLoop(tokens, timestamps, i, current_word, word_start, segments) ==
    IF i > Min(Len(tokens), Len(timestamps))
    THEN IF current_word # <<>> /\ word_start # NoneTs
         THEN Append(segments, Segment(current_word, word_start, timestamps[Len(timestamps)]))
         ELSE segments
    ELSE LET token == Strip(tokens[i])
             ts    == timestamps[i]
         IN  IF StartsWithSpace(token) \/ i = 1
             THEN LET word_end == IF i > 1 THEN timestamps[i - 1] ELSE ts
                      closed   == IF current_word # <<>> /\ word_start # NoneTs
                                  THEN Append(segments, Segment(current_word, word_start, word_end))
                                  ELSE segments
                  IN  SegLoop(tokens, timestamps, i + 1, token, ts, closed)
             ELSE SegLoop(tokens, timestamps, i + 1, current_word \o token, word_start, segments)

\* The function with its length guard dropped: zip() then pairs as many
\* elements as the shorter sequence has.
create_word_segments_unguarded(text, timestamps, tokens) ==
    IF timestamps = <<>> \/ tokens = <<>>
    THEN <<>>
    ELSE SegLoop(tokens, timestamps, 1, <<>>, NoneTs, <<>>)

create_word_segments(text, timestamps, tokens) ==
    IF timestamps = <<>> \/ tokens = <<>> \/ Len(timestamps) # Len(tokens)
    THEN <<>>
    ELSE SegLoop(tokens, timestamps, 1, <<>>, NoneTs, <<>>)

-----------------------------------------------------------------------------
(* SpecSeg: create_word_segments on every bounded input.                   *)

\* Subword tokens: with and without the leading-space marker, with trailing
\* whitespace, of one and two letters.
Tokens == { <<"a">>, <<SP, "a">>, <<"b">>, <<SP, "b">>, <<SP, "a", SP>>, <<"a", "b">> }

\* Token times, in thousandths of a second.
Times == {104, 226, 403}

SegInit ==
    /\ seg_pc = "call"
    /\ seg_tokens \in SeqsUpTo(Tokens, MaxLen)
    /\ seg_timestamps \in SeqsUpTo(Times, MaxLen)
    /\ seg_out = <<>>
    /\ ext_pc = "unused" /\ ext_stdout = <<>> /\ ext_stderr = <<>> /\ ext_out = <<>>
    /\ SysUnused

CallCreateWordSegments ==
    /\ seg_pc = "call"
    /\ seg_out' = create_word_segments(<<>>, seg_timestamps, seg_tokens)
    /\ seg_pc' = "done"
    /\ UNCHANGED <<seg_tokens, seg_timestamps, extVars, sysVars>>

SegNext == CallCreateWordSegments

SpecSeg == SegInit /\ [][SegNext]_vars

-----------------------------------------------------------------------------
(* Claims about create_word_segments.                                      *)

\* A token carries the leading-space marker.
HasMarker(token) == token # <<>> /\ Head(token) = SP

RECURSIVE MarkerCount(_)
MarkerCount(tokens) ==
    IF tokens = <<>> THEN 0
    ELSE (IF HasMarker(Head(tokens)) THEN 1 ELSE 0) + MarkerCount(Tail(tokens))

\* C1: for equal-length, non-empty tokens and timestamps, the number of word
\* segments returned is the number of tokens carrying the leading-space marker,
\* plus one if the first token does not carry it.
C1_SegmentCountIsMarkerCount ==
    (seg_pc = "done" /\ seg_tokens # <<>> /\ Len(seg_tokens) = Len(seg_timestamps))
        => Len(seg_out) = MarkerCount(seg_tokens)
                          + (IF HasMarker(seg_tokens[1]) THEN 0 ELSE 1)

\* C7: create_word_segments returns the empty sequence whenever the token and
\* timestamp sequences differ in length or either of them is empty.
C7_MismatchYieldsEmpty ==
    (seg_pc = "done" /\ (seg_tokens = <<>> \/ seg_timestamps = <<>>
                         \/ Len(seg_tokens) # Len(seg_timestamps)))
        => seg_out = <<>>

\* C7 witness: the function ran on two non-empty sequences of different lengths.
C7_Witness ==
    /\ seg_pc = "done"
    /\ seg_tokens # <<>> /\ seg_timestamps # <<>>
    /\ Len(seg_tokens) # Len(seg_timestamps)
    /\ seg_out = <<>>

-----------------------------------------------------------------------------
(* The engine's output lines.                                              *)
(*                                                                         *)
(* A stream is the sequence of its lines (the text split at "\n"; the      *)
(* empty stream is one blank line).  A line is described by what the code  *)
(* reads of it:                                                            *)
(*   kind    "log": diagnostic text with no brace and no quote;            *)
(*           "object": one JSON object, members text / timestamps /        *)
(*           tokens / words as given, no other nested brace;               *)
(*           "broken": such an object made invalid JSON, by a trailing     *)
(*           comma (closed) or by being cut before its end (not closed);   *)
(*   pad     whitespace surrounds the line;                                *)
(*   prefix  log text precedes the opening brace;                          *)
(*   quoted  some other member's value is the string "text".               *)
(***************************************************************************)

\* JSON values of the text member.
JAbsent == [t |-> "absent", v |-> <<>>]
JStr(s) == [t |-> "str", v |-> s]
JNull   == [t |-> "null", v |-> <<>>]
JNum    == [t |-> "number", v |-> <<>>]
JArray  == [t |-> "array", v |-> <<>>]
JObject == [t |-> "object", v |-> <<>>]

\* A list member, present with value v or absent.
Field(v) == [has |-> TRUE, v |-> v]
NoField  == [has |-> FALSE, v |-> <<>>]

LogLine ==
    [kind |-> "log", pad |-> FALSE, prefix |-> FALSE, closed |-> FALSE, quoted |-> FALSE,
     text |-> JAbsent, timestamps |-> NoField, tokens |-> NoField, words |-> NoField]

ObjectLine(text, timestamps, tokens, words) ==
    [kind |-> "object", pad |-> FALSE, prefix |-> FALSE, closed |-> TRUE, quoted |-> FALSE,
     text |-> text, timestamps |-> timestamps, tokens |-> tokens, words |-> words]

Padded(line)      == [line EXCEPT !.pad = TRUE]
Prefixed(line)    == [line EXCEPT !.prefix = TRUE]
Quoting(line)     == [line EXCEPT !.quoted = TRUE]
TrailingComma(line) == [line EXCEPT !.kind = "broken"]
CutShort(line)    == [line EXCEPT !.kind = "broken", !.closed = FALSE]

\* line.strip()
StripLine(line) == [line EXCEPT !.pad = FALSE]

\* line.startswith('{')
StartsWithBrace(line) == line.kind # "log" /\ ~line.pad /\ ~line.prefix

\* '"text"' in line
ContainsTextMarker(line) == line.kind # "log" /\ (line.text.t # "absent" \/ line.quoted)

\* '"timestamps"' in line
ContainsTimestampsMarker(line) == line.kind # "log" /\ line.timestamps.has

\* json.loads(line) succeeds (otherwise it raises JSONDecodeError).
JsonLoads(line) == line.kind = "object" /\ ~line.prefix

\* What the pattern \{[^{}]*"text"\s*:\s*"([^"]*)"[^{}]*\} captures in one line:
\* the raw string value of a text member of a brace pair with no brace inside.
RegexCaptures(line) ==
    IF line.kind # "log" /\ line.closed /\ line.text.t = "str"
    THEN <<line.text.v>>
    ELSE <<>>

-----------------------------------------------------------------------------
(* extract_result_from_output (lines 67-101).                              *)

\* The returned dict.
Record(text, timestamps, tokens, words) ==
    [raised |-> FALSE, text |-> text, timestamps |-> timestamps, tokens |-> tokens,
     words |-> words]

\* obj['text'].strip() on a value that is no string: AttributeError, which the
\* except clause (JSONDecodeError) does not catch.
Raised == [raised |-> TRUE, text |-> <<>>, timestamps |-> <<>>, tokens |-> <<>>, words |-> <<>>]

\* No line matched.
Nothing == [found |-> FALSE, rec |-> Raised]
Found(rec) == [found |-> TRUE, rec |-> rec]

\* combined = stderr + "\n" + stdout, split at "\n".
CombinedLines_StdoutFirst(stdout, stderr) == stdout \o stderr

CombinedLines(stdout, stderr) == stderr \o stdout

\* obj.get(key, [])
GetList(field) == IF field.has THEN field.v ELSE <<>>

\* Method 1: the loop over the lines, from line i.
RECURSIVE Method1(_, _)
Method1(lines, i) ==
    IF i > Len(lines) THEN Nothing
    ELSE LET line == StripLine(lines[i])
         IN  IF StartsWithBrace(line) /\ ContainsTextMarker(line)
                                      /\ ContainsTimestampsMarker(line)
             THEN IF ~JsonLoads(line)
                  THEN Method1(lines, i + 1)
                  ELSE IF line.text.t = "absent"
                       THEN Method1(lines, i + 1)
                       ELSE IF line.text.t # "str"
                            THEN Found(Raised)
                            ELSE IF Strip(line.text.v) # <<>>
                                 THEN Found(Record(Strip(line.text.v),
                                                   GetList(line.timestamps),
                                                   GetList(line.tokens),
                                                   GetList(line.words)))
                                 ELSE Method1(lines, i + 1)
             ELSE Method1(lines, i + 1)

\* re.findall(json_pattern, combined)
RECURSIVE FindAll(_)
FindAll(lines) ==
    IF lines = <<>> THEN <<>> ELSE RegexCaptures(Head(lines)) \o FindAll(Tail(lines))

\* Method 2: the last match of the pattern, text only.
Method2(lines) ==
    LET matches == FindAll(lines)
    IN  IF matches # <<>>
        THEN Found(Record(Strip(matches[Len(matches)]), <<>>, <<>>, <<>>))
        ELSE Nothing

extract_result_from_output(stdout, stderr) ==
    LET combined == CombinedLines(stdout, stderr)
        m1 == Method1(combined, 1)
        m2 == Method2(combined)
    IN  IF m1.found THEN m1.rec
        ELSE IF m2.found THEN m2.rec
        ELSE Record(<<>>, <<>>, <<>>, <<>>)

-----------------------------------------------------------------------------
(* SpecExtract: extract_result_from_output on every bounded pair of        *)
(* streams.                                                                *)

\* Values of a text member that are not strings.
NonStrings == {JNull, JNum, JArray, JObject}

\* The lines the streams are made of.
Lines ==
    { LogLine,
      \* a well-formed record
      ObjectLine(JStr(<<"a">>), Field(<<104>>), Field(<<<<SP, "a">>>>), NoField),
      \* a well-formed record whose text has whitespace around it, on a padded line
      Padded(ObjectLine(JStr(<<SP, "b", SP>>), Field(<<104, 226>>),
                        Field(<<<<SP, "b">>, <<"a">>>>), Field(<<<<"b", "a">>>>))),
      \* timestamps and tokens of different lengths
      ObjectLine(JStr(<<"c">>), Field(<<104, 226>>), Field(<<<<SP, "c">>>>), NoField),
      \* a text of whitespace only
      ObjectLine(JStr(<<SP>>), Field(<<104>>), Field(<<<<SP, "a">>>>), NoField),
      \* no tokens member
      ObjectLine(JStr(<<"d">>), Field(<<226>>), NoField, NoField),
      \* a text-only object, alone on its line and after log text
      ObjectLine(JStr(<<"e">>), NoField, NoField, NoField),
      Prefixed(ObjectLine(JStr(<<"f", SP>>), NoField, NoField, NoField)),
      \* both markers, no text member
      Quoting(ObjectLine(JAbsent, Field(<<104>>), NoField, NoField)),
      \* invalid JSON
      TrailingComma(ObjectLine(JStr(<<"g">>), Field(<<104>>), Field(<<<<SP, "g">>>>), NoField)),
      CutShort(ObjectLine(JStr(<<"h">>), Field(<<104>>), NoField, NoField)) }
    \cup { ObjectLine(tv, Field(<<>>), NoField, NoField) : tv \in NonStrings }

\* The pairs of streams with at most n lines together.
StreamPairs(n) ==
    { p \in SeqsUpTo(Lines, n - 1) \X SeqsUpTo(Lines, n - 1) :
        p[1] # <<>> /\ p[2] # <<>> /\ Len(p[1]) + Len(p[2]) <= n }

ExtractInit ==
    /\ ext_pc = "call"
    /\ \E p \in StreamPairs(MaxLines) : ext_stderr = p[1] /\ ext_stdout = p[2]
    /\ ext_out = Raised
    /\ seg_pc = "unused" /\ seg_tokens = <<>> /\ seg_timestamps = <<>> /\ seg_out = <<>>
    /\ SysUnused

CallExtract ==
    /\ ext_pc = "call"
    /\ ext_out' = extract_result_from_output(ext_stdout, ext_stderr)
    /\ ext_pc' = "done"
    /\ UNCHANGED <<ext_stdout, ext_stderr, segVars, sysVars>>

ExtractNext == CallExtract

SpecExtract == ExtractInit /\ [][ExtractNext]_vars

-----------------------------------------------------------------------------
(* Claims about extract_result_from_output.                                *)

\* A line the primary strategy tries to parse.
IsCandidate(raw) ==
    LET line == StripLine(raw)
    IN  StartsWithBrace(line) /\ ContainsTextMarker(line) /\ ContainsTimestampsMarker(line)

\* The diagnostic stream's lines, then the primary stream's.
ClaimOrder == ext_stderr \o ext_stdout

CandidateIndexes == {i \in 1..Len(ClaimOrder) : IsCandidate(ClaimOrder[i])}

\* The first candidate line in that order (there is one).
FirstCandidate ==
    ClaimOrder[CHOOSE i \in CandidateIndexes : \A j \in CandidateIndexes : i <= j]

\* A well-formed single-line record with timestamps and tokens of equal length.
WellFormedRecord(line) ==
    /\ line.kind = "object" /\ ~line.prefix
    /\ line.text.t = "str"
    /\ line.timestamps.has /\ line.tokens.has
    /\ Len(line.timestamps.v) = Len(line.tokens.v)

\* C2 (as stated): when the first candidate line is a well-formed record with
\* non-empty text (here: non-empty even once trimmed), the call returns exactly
\* that record's text, timestamps and tokens, with no character of the text
\* added or removed.
C2_ReturnsRecordUnchanged ==
    (ext_pc = "done" /\ CandidateIndexes # {} /\ WellFormedRecord(FirstCandidate)
                     /\ Strip(FirstCandidate.text.v) # <<>>)
        => /\ ~ext_out.raised
           /\ ext_out.text = FirstCandidate.text.v
           /\ ext_out.timestamps = FirstCandidate.timestamps.v
           /\ ext_out.tokens = FirstCandidate.tokens.v

\* C2 (amended): when the first candidate line is a well-formed record whose
\* text is non-empty after trimming whitespace, the call returns that text
\* trimmed of leading and trailing whitespace, and the record's timestamps and
\* tokens unchanged.
C2_ReturnsRecordTrimmed ==
    (ext_pc = "done" /\ CandidateIndexes # {} /\ WellFormedRecord(FirstCandidate)
                     /\ Strip(FirstCandidate.text.v) # <<>>)
        => /\ ~ext_out.raised
           /\ ext_out.text = Strip(FirstCandidate.text.v)
           /\ ext_out.timestamps = FirstCandidate.timestamps.v
           /\ ext_out.tokens = FirstCandidate.tokens.v

\* C2 witness: the record returned was on a line of the primary stream, after a
\* diagnostic line that is no candidate, and its text lost whitespace.
C2_Witness ==
    /\ ext_pc = "done"
    /\ CandidateIndexes # {} /\ WellFormedRecord(FirstCandidate)
    /\ ~IsCandidate(ext_stderr[1]) /\ IsCandidate(ext_stdout[1])
    /\ Strip(FirstCandidate.text.v) # <<>>
    /\ Strip(FirstCandidate.text.v) # FirstCandidate.text.v
    /\ ext_out.text = Strip(FirstCandidate.text.v)
    /\ ext_out.tokens # <<>>

\* C3: in every record returned, timestamps and tokens that are both non-empty
\* have the same length.
C3_TimestampsMatchTokens ==
    (ext_pc = "done" /\ ~ext_out.raised
                     /\ ext_out.timestamps # <<>> /\ ext_out.tokens # <<>>)
        => Len(ext_out.timestamps) = Len(ext_out.tokens)

\* C8: the call returns a record and never raises, whatever the streams hold.
C8_ExtractNeverRaises ==
    ext_pc = "done" => ~ext_out.raised

-----------------------------------------------------------------------------
(* Configuration (lines 9-13), the model snapshot, find_model_files.       *)

TokensCandidates == <<"tokens.txt", "bpe.model", "config.json">>

EncoderInt8 == "encoder-epoch-20-avg-10.int8.onnx"
EncoderFull == "encoder-epoch-20-avg-10.onnx"
DecoderInt8 == "decoder-epoch-20-avg-10.int8.onnx"
DecoderFull == "decoder-epoch-20-avg-10.onnx"
JoinerInt8  == "joiner-epoch-20-avg-10.int8.onnx"
JoinerFull  == "joiner-epoch-20-avg-10.onnx"

\* The files snapshot_download fetches for MODEL_ID: a vocabulary under its
\* second recognised name, quantized and full-precision artifacts.
RepoFiles == {"bpe.model", EncoderInt8, DecoderFull, JoinerInt8}

\* The for loop over tokens_candidates: the first that exists, "" if none does.
RECURSIVE FirstExisting(_, _)
FirstExisting(candidates, dir) ==
    IF candidates = <<>> THEN ""
    ELSE IF Head(candidates) \in dir THEN Head(candidates)
    ELSE FirstExisting(Tail(candidates), dir)

\* The quantized file if it exists, else the full-precision name (unchecked).
PreferInt8(dir, int8, full) == IF int8 \in dir THEN int8 ELSE full

\* find_model_files(MODEL_DIR) (lines 35-60); raised: FileNotFoundError.
find_model_files(dir) ==
    LET tokens_path == FirstExisting(TokensCandidates, dir)
    IN  [raised  |-> tokens_path = "",
         tokens  |-> tokens_path,
         encoder |-> PreferInt8(dir, EncoderInt8, EncoderFull),
         decoder |-> PreferInt8(dir, DecoderInt8, DecoderFull),
         joiner  |-> PreferInt8(dir, JoinerInt8, JoinerFull)]

NoModel == [raised |-> TRUE, tokens |-> "", encoder |-> "", decoder |-> "", joiner |-> ""]

\* The engine can load the model only if every path it is given exists.
ModelLoadable(m, dir) == {m.tokens, m.encoder, m.decoder, m.joiner} \subseteq dir

-----------------------------------------------------------------------------
(* The handler's values.                                                   *)

\* result.stderr[-500:]
TailLen == 500

StderrHead(s) == SubSeq(s, 1, Min(Len(s), TailLen))

StderrTail(s) == IF Len(s) <= TailLen THEN s ELSE SubSeq(s, Len(s) - TailLen + 1, Len(s))

Digits == <<"0", "1", "2", "3", "4", "5", "6", "7", "8", "9">>

\* A diagnostic text of n characters, the i-th being the last digit of i.
DiagnosticText(n) == [i \in 1..n |-> Digits[(i % 10) + 1]]

\* The diagnostic stream of a failed engine run, as characters: empty, short,
\* exactly as long as the tail kept, one longer, more than twice as long.
DiagnosticTexts == {DiagnosticText(n) : n \in {0, 3, TailLen, TailLen + 1, 2 * TailLen + 3}}

\* Exit statuses of the engine process: success, failure, killed (as the shell
\* and as subprocess report it).
ExitStatuses == {0, 1, 137, -9}

FfmpegExitStatuses == {0, 1}

FfmpegDiagnostics == {<<>>, <<"e", "r", "r">>}

\* Wall-clock durations of the engine run, in thousandths of a second.
ElapsedTimes == {1234}

\* inp.get("outfile"): 0 stands for a missing or empty value, n > 0 for the
\* n-th distinct file name a caller may give.
Outfiles == {0, 1}

ReturnFormats == {"text", "json", "base64"}

\* "(No transcript detected)"
Placeholder == <<"(No transcript detected)">>

\* base64.b64encode(transcript.encode("utf-8")).decode("utf-8"), kept symbolic.
B64(text) == [b64 |-> text]

\* out_name = inp.get("outfile") or f"{job_id}.json"; out_path joins it to OUT_DIR.
OutName(outfile, job_id) ==
    IF outfile # 0 THEN [kind |-> "outfile", n |-> outfile]
    ELSE [kind |-> "job_id", n |-> job_id]

NoName == [kind |-> "none", n |-> 0]

\* asr_result, as it is dumped: the extracted record, the placeholder for an
\* empty text, and word_segments when they were asked for and timestamps exist
\* (lines 216-235).
NoResult ==
    [text |-> <<>>, timestamps |-> <<>>, tokens |-> <<>>, words |-> <<>>,
     has_word_segments |-> FALSE, word_segments |-> <<>>]

ShapeResult(r, include_timestamps) ==
    LET transcript == IF r.text = <<>> THEN Placeholder ELSE r.text
        segmented  == include_timestamps /\ r.timestamps # <<>>
    IN  [text |-> transcript, timestamps |-> r.timestamps, tokens |-> r.tokens,
         words |-> r.words,
         has_word_segments |-> segmented,
         word_segments |-> IF segmented
                           THEN create_word_segments(transcript, r.timestamps, r.tokens)
                           ELSE <<>>]

NoPayload == [none |-> TRUE]

\* The dict returned for each return format (lines 250-283).
ReturnPayload(return_format, j) ==
    IF return_format = "text"
    THEN [job_id |-> j.job_id, elapsed_sec |-> Round2(j.elapsed),
          text |-> j.asr_result.text, path |-> j.out_name]
    ELSE IF return_format = "base64"
    THEN [job_id |-> j.job_id, elapsed_sec |-> Round2(j.elapsed),
          text_b64 |-> B64(j.asr_result.text), path |-> j.out_name]
    ELSE [job_id |-> j.job_id, elapsed_sec |-> Round2(j.elapsed), path |-> j.out_name,
          text |-> j.asr_result.text,
          timestamps |-> j.asr_result.timestamps,
          tokens |-> j.asr_result.tokens,
          word_segments |-> j.asr_result.word_segments,
          num_tokens |-> Len(j.asr_result.tokens),
          num_words |-> Len(j.asr_result.word_segments)]

\* The locals of one handler call.  outcome: "none" (no call yet), "running",
\* "returned", "raised".  opens, writes and remove_attempted count what the call
\* did to the file system.
NoJob ==
    [outcome |-> "none", job_id |-> 0, out_name |-> NoName, ffmpeg_ran |-> FALSE,
     model |-> NoModel, engine_ran |-> FALSE, returncode |-> 0, stderr |-> <<>>,
     elapsed |-> 0, asr_result |-> NoResult, opens |-> 0, writes |-> 0,
     remove_attempted |-> FALSE, payload |-> NoPayload]

\* OUT_DIR with the file `name` (re)written.
PutArtifact(dir, name, owner, complete, doc) ==
    {a \in dir : a.name # name}
        \cup {[name |-> name, owner |-> owner, complete |-> complete, doc |-> doc]}

Returns(w, j, payload) ==
    /\ job' = [job EXCEPT ![w] = [j EXCEPT !.outcome = "returned", !.payload = payload]]
    /\ pc' = [pc EXCEPT ![w] = "serving"]

-----------------------------------------------------------------------------
(* A worker process: module import (ensure_model, line 62), then           *)
(* runpod.serverless.start (line 288) calling handler for each job.        *)

\* ensure_model (lines 23-33): the test of MODEL_DIR, and the start of the
\* download when it is missing or empty.
EnsureModel(w) ==
    /\ pc[w] = "import"
    /\ IF model_dir = {}
       THEN /\ pc' = [pc EXCEPT ![w] = "download"]
            /\ downloads' = downloads + 1
       ELSE /\ pc' = [pc EXCEPT ![w] = "serving"]
            /\ UNCHANGED downloads
    /\ UNCHANGED <<model_dir, artifacts, tmp_files, next_id, dl, job, segVars, extVars>>

\* snapshot_download (lines 26-31) stores one more file of the snapshot; with
\* the last one it returns and the import goes on to serve.
DownloadFile(w) ==
    /\ pc[w] = "download"
    /\ \E f \in RepoFiles \ dl[w] :
          /\ model_dir' = model_dir \cup {f}
          /\ dl' = [dl EXCEPT ![w] = @ \cup {f}]
          /\ pc' = [pc EXCEPT ![w] = IF dl'[w] = RepoFiles THEN "serving" ELSE "download"]
    /\ UNCHANGED <<downloads, artifacts, tmp_files, next_id, job, segVars, extVars>>

\* handler, lines 159-170: the audio check, then job_id (uuid4, taken never to
\* repeat), out_name, out_path and fixed_wav.
HandlerStart(w) ==
    /\ pc[w] = "serving"
    /\ next_id < MaxJobs
    /\ \E audio_found \in BOOLEAN, outfile \in Outfiles :
          IF ~audio_found
          THEN /\ outfile = 0
               /\ job' = [job EXCEPT ![w] = [NoJob EXCEPT !.outcome = "returned",
                                                         !.payload = [error |-> "Audio not found"]]]
               /\ UNCHANGED <<pc, next_id>>
          ELSE /\ next_id' = next_id + 1
               /\ job' = [job EXCEPT ![w] = [NoJob EXCEPT !.outcome = "running",
                                                         !.job_id = next_id + 1,
                                                         !.out_name = OutName(outfile, next_id + 1)]]
               /\ pc' = [pc EXCEPT ![w] = "ffmpeg"]
    /\ UNCHANGED <<model_dir, downloads, artifacts, tmp_files, dl, segVars, extVars>>

\* Lines 173-180: ffmpeg writes fixed_wav (a failed run may or may not leave
\* the file); a non-zero exit returns the error.
RunFfmpeg(w) ==
    /\ pc[w] = "ffmpeg"
    /\ \E rc \in FfmpegExitStatuses, diag \in FfmpegDiagnostics, wrote \in BOOLEAN :
          /\ rc = 0 => (wrote /\ diag = <<>>)
          /\ tmp_files' = IF wrote THEN tmp_files \cup {job[w].job_id} ELSE tmp_files
          /\ LET j == [job[w] EXCEPT !.ffmpeg_ran = TRUE]
             IN  IF rc # 0
                 THEN Returns(w, j, [error |-> "Audio conversion failed", details |-> diag])
                 ELSE /\ job' = [job EXCEPT ![w] = j]
                      /\ pc' = [pc EXCEPT ![w] = "find"]
    /\ UNCHANGED <<model_dir, downloads, artifacts, next_id, dl, segVars, extVars>>

\* Lines 183-187: find_model_files, its exception returned as an error.
FindModelFiles(w) ==
    /\ pc[w] = "find"
    /\ LET m == find_model_files(model_dir)
       IN  IF m.raised
           THEN Returns(w, job[w], [error |-> "Model files not found"])
           ELSE /\ job' = [job EXCEPT ![w] = [@ EXCEPT !.model = m]]
                /\ pc' = [pc EXCEPT ![w] = "engine"]
    /\ UNCHANGED <<model_dir, downloads, artifacts, tmp_files, next_id, dl, segVars, extVars>>

\* Lines 190-212: the engine exits non-zero, its diagnostic stream being one of
\* `texts`, and the handler returns the error.
EngineFails(w, texts) ==
    /\ pc[w] = "engine"
    /\ \E rc \in ExitStatuses \ {0}, text \in texts, elapsed \in ElapsedTimes :
          Returns(w, [job[w] EXCEPT !.engine_ran = TRUE, !.returncode = rc,
                                    !.stderr = text, !.elapsed = elapsed],
                  [error |-> "Sherpa-ONNX failed", returncode |-> rc,
                   stderr |-> StderrTail(text)])
    /\ UNCHANGED <<model_dir, downloads, artifacts, tmp_files, next_id, dl, segVars, extVars>>

\* What extract_result_from_output(result.stdout, result.stderr) produces on
\* each of the stream pairs `outputs` (<<stderr, stdout>>).
Extractions(outputs) == {extract_result_from_output(p[2], p[1]) : p \in outputs}

\* Lines 190-235: the engine exits zero; r, one of `extractions`, is what
\* extract_result_from_output makes of its streams (an exception of it leaves
\* the handler); the placeholder is substituted and the word segments are made.
EngineSucceeds(w, extractions) ==
    /\ pc[w] = "engine"
    /\ ModelLoadable(job[w].model, model_dir)
    /\ \E r \in extractions, include_timestamps \in BOOLEAN,
          elapsed \in ElapsedTimes :
          LET j == [job[w] EXCEPT !.engine_ran = TRUE, !.returncode = 0, !.elapsed = elapsed]
          IN  IF r.raised
              THEN /\ job' = [job EXCEPT ![w] = [j EXCEPT !.outcome = "raised"]]
                   /\ pc' = [pc EXCEPT ![w] = "serving"]
              ELSE /\ job' = [job EXCEPT ![w] =
                                [j EXCEPT !.asr_result = ShapeResult(r, include_timestamps)]]
                   /\ pc' = [pc EXCEPT ![w] = "open"]
    /\ UNCHANGED <<model_dir, downloads, artifacts, tmp_files, next_id, dl, segVars, extVars>>

\* Line 238: open(out_path, "w") creates or truncates the file.
OpenArtifact(w) ==
    /\ pc[w] = "open"
    /\ artifacts' = PutArtifact(artifacts, job[w].out_name, job[w].job_id, FALSE, NoResult)
    /\ job' = [job EXCEPT ![w] = [@ EXCEPT !.opens = @ + 1]]
    /\ pc' = [pc EXCEPT ![w] = "dump"]
    /\ UNCHANGED <<model_dir, downloads, tmp_files, next_id, dl, segVars, extVars>>

\* Line 239 and the end of the with block: the document is written and the
\* file closed.
DumpArtifact(w) ==
    /\ pc[w] = "dump"
    /\ artifacts' = PutArtifact(artifacts, job[w].out_name, job[w].job_id, TRUE,
                                job[w].asr_result)
    /\ job' = [job EXCEPT ![w] = [@ EXCEPT !.writes = @ + 1]]
    /\ pc' = [pc EXCEPT ![w] = "cleanup"]
    /\ UNCHANGED <<model_dir, downloads, tmp_files, next_id, dl, segVars, extVars>>

\* Lines 244-247: os.remove(fixed_wav); its failure is swallowed.
Cleanup(w) ==
    /\ pc[w] = "cleanup"
    /\ \E removed \in BOOLEAN :
          /\ removed => job[w].job_id \in tmp_files
          /\ tmp_files' = IF removed THEN tmp_files \ {job[w].job_id} ELSE tmp_files
    /\ job' = [job EXCEPT ![w] = [@ EXCEPT !.remove_attempted = TRUE]]
    /\ pc' = [pc EXCEPT ![w] = "return"]
    /\ UNCHANGED <<model_dir, downloads, artifacts, next_id, dl, segVars, extVars>>

\* Lines 250-283: the payload of the requested format is returned.
Return(w) ==
    /\ pc[w] = "return"
    /\ \E return_format \in ReturnFormats :
          Returns(w, job[w], ReturnPayload(return_format, job[w]))
    /\ UNCHANGED <<model_dir, downloads, artifacts, tmp_files, next_id, dl, segVars, extVars>>

\* What the worker processes do, the extraction of the engine's streams being
\* drawn from `extractions` (zero exit) and its diagnostic stream from `texts`
\* (non-zero exit).
WorkerNext(extractions, texts) ==
    \/ \E w \in DOMAIN pc : EnsureModel(w)
    \/ \E w \in DOMAIN pc : DownloadFile(w)
    \/ \E w \in DOMAIN pc : HandlerStart(w)
    \/ \E w \in DOMAIN pc : RunFfmpeg(w)
    \/ \E w \in DOMAIN pc : FindModelFiles(w)
    \/ \E w \in DOMAIN pc : EngineFails(w, texts)
    \/ \E w \in DOMAIN pc : EngineSucceeds(w, extractions)
    \/ \E w \in DOMAIN pc : OpenArtifact(w)
    \/ \E w \in DOMAIN pc : DumpArtifact(w)
    \/ \E w \in DOMAIN pc : Cleanup(w)
    \/ \E w \in DOMAIN pc : Return(w)

\* The worker processes start importing the module, MODEL_DIR holding one of
\* `dirs`.
WorkerInit(workers, dirs) ==
    /\ model_dir \in dirs
    /\ downloads = 0
    /\ artifacts = {}
    /\ tmp_files = {}
    /\ next_id = 0
    /\ pc = [w \in workers |-> "import"]
    /\ dl = [w \in workers |-> {}]
    /\ job = [w \in workers |-> NoJob]
    /\ seg_pc = "unused" /\ seg_tokens = <<>> /\ seg_timestamps = <<>> /\ seg_out = <<>>
    /\ ext_pc = "unused" /\ ext_stdout = <<>> /\ ext_stderr = <<>> /\ ext_out = <<>>

\* What MODEL_DIR may hold when a worker starts: nothing, the whole snapshot,
\* a vocabulary alone, an encoder alone.
StartDirs == {{}, RepoFiles, {"bpe.model"}, {EncoderInt8}}

\* SpecHandler: one worker process, every bounded engine output.
HandlerInit == WorkerInit({1}, StartDirs)

HandlerExtractions == Extractions(StreamPairs(MaxJobLines))

HandlerNext == WorkerNext(HandlerExtractions, DiagnosticTexts)

SpecHandler == HandlerInit /\ [][HandlerNext]_vars

\* SpecWorkers: two worker processes started together on one MODEL_DIR, empty
\* or fully populated, and one OUT_DIR.  The engine's output is a log line and
\* then a well-formed record, a log line, or a record whose text is null.
WorkersOutputs ==
    { <<<<LogLine>>, <<l>>>> :
        l \in { ObjectLine(JStr(<<"a">>), Field(<<104>>), Field(<<<<SP, "a">>>>), NoField),
                LogLine,
                ObjectLine(JNull, Field(<<>>), NoField, NoField) } }

WorkersInit == WorkerInit({1, 2}, {{}, RepoFiles})

WorkersExtractions == Extractions(WorkersOutputs)

WorkersNext == WorkerNext(WorkersExtractions, {DiagnosticText(3)})

SpecWorkers == WorkersInit /\ [][WorkersNext]_vars

-----------------------------------------------------------------------------
(* Claims about handler and the worker processes.                          *)

Workers == DOMAIN pc

\* The last n characters of `text`, all of it when it has fewer.
LastChars(text, n) ==
    LET len == Len(text)
    IN  SubSeq(text, len - Min(len, n) + 1, len)

\* C4: a job whose engine exited non-zero has returned a payload with an error
\* field, a returncode field equal to the exit status and a stderr field holding
\* the last 500 characters of the diagnostic stream (all of it when shorter),
\* and has neither opened nor written its artifact.
C4_EngineFailureReturnsError ==
    \A w \in Workers :
        LET j == job[w]
        IN  (j.engine_ran /\ j.returncode # 0)
                => /\ j.outcome = "returned"
                   /\ {"error", "returncode", "stderr"} \subseteq DOMAIN j.payload
                   /\ j.payload.returncode = j.returncode
                   /\ j.payload.stderr = LastChars(j.stderr, 500)
                   /\ j.opens = 0 /\ j.writes = 0
                   /\ \A a \in artifacts : a.owner # j.job_id

\* C4 witness: a job whose engine was killed (137) with more than 500
\* characters of diagnostics has returned.
C4_Witness ==
    \E w \in Workers :
        /\ job[w].engine_ran /\ job[w].returncode = 137
        /\ Len(job[w].stderr) > 500
        /\ job[w].outcome = "returned"
        /\ Len(job[w].payload.stderr) = 500

\* C5: a job whose engine exited zero, once the handler is left, has written
\* its artifact exactly once, and the artifact holds the job's record with its
\* word segments whatever the return format.
C5_ArtifactWrittenOnce ==
    \A w \in Workers :
        LET j == job[w]
        IN  (j.engine_ran /\ j.returncode = 0 /\ j.outcome \in {"returned", "raised"})
                => /\ j.writes = 1
                   /\ \E a \in artifacts :
                         /\ a.name = j.out_name /\ a.owner = j.job_id
                         /\ a.complete /\ a.doc = j.asr_result

\* C9: when the handler has returned from a job whose audio normalization ran,
\* the removal of the temporary normalized-audio file has been attempted.
C9_CleanupOnEveryPath ==
    \A w \in Workers :
        (job[w].outcome = "returned" /\ job[w].ffmpeg_ran) => job[w].remove_attempted

\* C6: two jobs that run at the same time on separate workers, and have both
\* opened their artifact, write to different artifact paths and use different
\* temporary normalized-audio paths (/tmp/{job_id}_16k.wav).
C6_ConcurrentJobsUseDistinctPaths ==
    \A w1 \in Workers : \A w2 \in Workers \ {w1} :
        (/\ job[w1].outcome = "running" /\ job[w1].opens > 0
         /\ job[w2].outcome = "running" /\ job[w2].opens > 0)
            => /\ job[w1].out_name # job[w2].out_name
               /\ job[w1].job_id # job[w2].job_id

\* C10: the model directory is populated by at most one download, and no job
\* runs on any worker while a download is still in progress.
C10_OneDownloadBeforeAnyJob ==
    /\ downloads <= 1
    /\ \A w \in Workers :
          job[w].outcome = "running" => \A v \in Workers : pc[v] # "download"

====
